---- MODULE Spec2Model ----
(***************************************************************************)
(* darwin-rebuild-rs: the action orchestrator (Runnable::run) of the three *)
(* generations of the program kept in the repository:                      *)
(*   "runner"        src/runner/runnable.rs + src/runner/nix_darwin_runner.rs *)
(*   "build_runner"  src/build_runner.rs                                   *)
(*   "main"          src/main.rs                                           *)
(* The first two call the command wrappers of src/nix_commands.rs; main    *)
(* calls the wrappers with the signatures of src/cli.rs.                   *)
(*                                                                         *)
(* A run is a sequential program; every external command, file read and    *)
(* environment read is one step whose outcome the environment chooses.     *)
(* `log` records what the run has read and issued, in order.               *)
(*                                                                         *)
(* Three specifications:                                                   *)
(*   Spec       a constructed runner runs, in an environment that changes  *)
(*   SpecNew    the constructor resolves the flake reference of the        *)
(*              command line, then the runner runs                         *)
(*   SpecParse  the pattern of parse_flake on every short reference        *)
(***************************************************************************)
EXTENDS Naturals, Sequences, FiniteSets, TLC

VARIABLES
  variant,          \* which orchestrator runs
  debug,            \* cfg(debug_assertions)
  hook,             \* the panic hook of initialize_panic_handler is installed
  action,           \* Cli.action: the subcommand, "None" when absent
  rollback,         \* Cli.rollback
  list_generations, \* Cli.list_generations
  argv,             \* the build flags of the command line, in the order given
  shell,            \* the shell of Action::Completions, "none" for the other actions
  flake_arg,        \* Cli.flake: the reference given on the command line
  flake_value,      \* parse_flake: the reference put together from the captures
  cmd,              \* parse_flake: "metadata" or "info"
  metadata,         \* parse_flake: the document get_flake_metadata returned
  flake,            \* the runner's resolved flake reference, None or Some(string)
  flake_attr,       \* the runner's attribute path
  profile_name,     \* Cli.profile_name
  profile_env,      \* environment: the variable `profile`
  profile,          \* the runner's profile path
  changelog,        \* file system: the darwin-changes file of the default profile
  stdout,           \* the lines print_changelog wrote
  user,             \* environment: what $USER holds now
  perm,             \* file system: permission state of the profile path now
  pc,               \* position of the run
  act,              \* the action selected by run
  darwin_config,    \* the file found by the Edit arm
  system_config,    \* the local system_config of the running arm
  built,            \* the build's out link exists
  build_flags,      \* the extra build flags the last build was invoked with
  checkActivation,  \* the environment marker set by the Check arm
  out_dir,          \* the temporary build directory
  result,           \* how the run ended
  error,            \* the message of the error the run returned
  log               \* reads and external calls, in order

vars == << variant, debug, hook, action, rollback, list_generations, shell, argv,
           flake_arg, flake_value, cmd, metadata, flake, flake_attr,
           user, perm, pc, act, darwin_config, system_config, built,
           checkActivation, out_dir, changelog, stdout,
           profile_name, profile_env, profile, build_flags,
           result, error, log >>

\* the command line as parsed by clap
args == << variant, debug, hook, action, rollback, list_generations, shell, argv, flake_arg >>

\* what a run only reads: the command line and what the constructor resolved
cli == << args, flake_value, cmd, metadata, flake, flake_attr >>

env == << user, perm >>

\* the profile: what it is resolved from, and the path
prof == << profile_name, profile_env, profile >>

----
\* Values

Variants == {"runner", "build_runner", "main"}

\* cli::Action as the From impls of nix_darwin_action.rs and build_runner.rs take it
Subcommands == {"Edit", "Switch", "Activate", "Build", "Check", "Changelog", "Completions"}

\* the Action of main.rs: List and Rollback are subcommands too
MainSubcommands == Subcommands \cup {"List", "Rollback"}

\* clap_complete::Shell, the targets of generate_completion
Shells == {"Bash", "Elvish", "Fish", "PowerShell", "Zsh"}

\* A build flag of the command line: its name and the values after it
Flag(name, vals) == [name |-> name, vals |-> vals]

\* the build-only flags of Cli: those with one value, those with two
BuildFlags ==
  {Flag("--max-jobs", << "4" >>), Flag("--cores", << "2" >>),
   Flag("--update-input", << "nixpkgs" >>), Flag("--substituters", << "https://s" >>),
   Flag("--option", << "sandbox", "false" >>), Flag("--arg", << "x", "1" >>),
   Flag("--argstr", << "y", "z" >>), Flag("--override-input", << "nixpkgs", "./n" >>)}

\* how many build flags a command line holds at most
MaxFlags == 2

\* the command lines: at most MaxFlags build flags, each at most once
CommandLines ==
  {a \in UNION { [1..k -> BuildFlags] : k \in 0..MaxFlags } :
     \A i, j \in 1..Len(a) : i # j => a[i].name # a[j].name}

\* Cli.profile_name: None, or Some(name); a name is a sequence of characters
\* and of the word `system`
NoProfileName == [some |-> FALSE, val |-> << >>]

MaxName == 3

NameAtoms == {"a", "/", "system"}

ProfileNames ==
  {NoProfileName} \cup
  {[some |-> TRUE, val |-> n] : n \in UNION { [1..k -> NameAtoms] : k \in 0..MaxName }}

\* env::var("profile"): Err when the variable is not set, else its value
NoProfileEnv == [set |-> FALSE, val |-> ""]

ProfileEnvs == {NoProfileEnv, [set |-> TRUE, val |-> ""], [set |-> TRUE, val |-> "/run/profile"]}

\* DEFAULT_PROFILE, a constant of the crate root, and its placeholder in main.rs
DEFAULT_PROFILE == "DEFAULT_PROFILE"

\* the profile of a runner that is not constructed yet
Unresolved == "unresolved"

\* default_value: env::var("profile").unwrap_or(DEFAULT_PROFILE.to_string())
default_value(v, e) ==
  IF e.set THEN e.val ELSE IF v = "main" THEN "@profile@" ELSE DEFAULT_PROFILE

\* format!("/nix/var/nix/profiles/system-profiles/{}", profile_name), up to the name
system_profiles ==
  << "/", "nix", "/", "var", "/", "nix", "/", "profiles", "/", "system-profiles", "/" >>

\* a path without the separators it ends with, the root excepted
RECURSIVE trim_separators(_)
trim_separators(p) ==
  IF Len(p) > 1 /\ p[Len(p)] = "/" THEN trim_separators(SubSeq(p, 1, Len(p) - 1)) ELSE p

\* a path without the characters of its last component
RECURSIVE drop_component(_)
drop_component(p) ==
  IF p # << >> /\ p[Len(p)] # "/" THEN drop_component(SubSeq(p, 1, Len(p) - 1)) ELSE p

\* Path::parent: the path without its last component, None for the root and
\* for the empty path
parent(p) ==
  LET q == trim_separators(p)
  IN IF q = << >> \/ q = << "/" >> THEN [some |-> FALSE, val |-> << >>]
     ELSE [some |-> TRUE, val |-> trim_separators(drop_component(q))]

\* the longest darwin-changes file, in lines
MaxLines == 34

\* how many lines of the file print_changelog prints at most
MaxChangelogLines == 32

\* the darwin-changes file: not readable, or its lines (a line is its number)
NoChangelog == [readable |-> FALSE, lines |-> << >>]

ChangelogFiles ==
  {NoChangelog} \cup {[readable |-> TRUE, lines |-> [i \in 1..n |-> i]] : n \in 0..MaxLines}

\* Iterator::take(k) of a sequence
take(s, k) == SubSeq(s, 1, IF Len(s) < k THEN Len(s) ELSE k)

\* $USER: the superuser, another account, or not set
Users == {"root", "other", "unset"}

\* fs::metadata(profile).permissions().readonly(), or no such path
Perms == {"rw", "ro", "missing"}

\* a child process: exit 0, exit non-zero, killed by a signal, could not be started
Outcomes == {"ok", "fail", "signal", "spawn"}

\* how many store paths the environment can name
MaxStorePaths == 2

PathNames == << "/nix/store/a", "/nix/store/b", "/nix/store/c", "/nix/store/d" >>

\* store paths a build, a systemConfig file or canonicalize can name
StorePaths == { PathNames[i] : i \in 1..MaxStorePaths }

\* out_dir.path().join("result")
out_link_str == "/tmp/nix-darwin-x/result"

\* Option::None of a string-valued field
None == "None"

\* the runner's flake field: None or Some(resolved reference)
Flakes == {None, "git+file:///cfg"}

\* A string the program takes apart is a sequence of characters; Str gives
\* the string that the commands and the runner's fields hold.
RECURSIVE Str(_)
Str(s) == IF s = << >> THEN "" ELSE Head(s) \o Str(Tail(s))

\* the longest reference the parser is tried on
MaxLen == 6

\* characters of a reference: a letter, the four delimiters of the pattern,
\* and the line feed that `.` does not match
Chars == {"a", ":", "/", "?", "#", "\n"}

\* every string of at most n characters
Strings(n) == UNION { [1..k -> Chars] : k \in 0..n }

\* Cli.flake as the constructor is tried on it: absent, empty, a plain
\* reference, one with a fragment, one with `#` and nothing after it
NoFlake == [some |-> FALSE, val |-> << >>]

SomeFlake(s) == [some |-> TRUE, val |-> s]

FlakeArgs == { NoFlake, SomeFlake(<< >>), SomeFlake(<< "a" >>),
               SomeFlake(<< "a", "#", "h" >>), SomeFlake(<< "a", "#" >>) }

\* gethostname(): a name, or the empty name
Hostnames == {"mac", ""}

\* serde_json::Value, as far as the constructor tells its variants apart;
\* Absent is a key the object does not have
JNull == [t |-> "Null", v |-> << >>]

Absent == [t |-> "Absent", v |-> << >>]

JNumber == [t |-> "Number", v |-> << "1" >>]

JBool(b) == [t |-> "Bool", v |-> IF b THEN << "t", "r", "u", "e" >>
                                       ELSE << "f", "a", "l", "s", "e" >>]

JString(s) == [t |-> "String", v |-> s]

\* the `url` of a metadata document
UrlValues == { Absent, JNull, JNumber, JString(<< >>),
               JString(<< "g", ":", "c" >>), JString(<< "g", ":", "c", "?", "r" >>) }

\* the `resolved.submodules` of a metadata document
SubmodulesValues == { Absent, JNull, JBool(TRUE), JBool(FALSE), JNumber,
                      JString(<< "t", "r", "u", "e" >>),
                      JString(<< "f", "a", "l", "s", "e" >>),
                      JString(<< "1" >>) }

\* the documents `nix flake metadata --json` can print
Documents ==
  { [url |-> u, submodules |-> JNull] : u \in UrlValues }
    \cup { [url |-> u, submodules |-> b] :
             u \in { x \in UrlValues : x.t = "String" /\ x.v # << >> },
             b \in SubmodulesValues }

\* before get_flake_metadata has returned
Unset == [t |-> "Unset", v |-> << >>]

NoMetadata == [url |-> Unset, submodules |-> Unset]

\* Index for Value: a missing key reads as Null
Index(doc, key) == IF doc[key].t = "Absent" THEN JNull ELSE doc[key]

\* what nix-instantiate --find-file darwin-config prints
ConfigFiles == {"", "/cfg/darwin.nix"}

\* A log entry: what was read or issued (op), through sudo or not, its
\* argument, and how it ended (out).
Call(op, sudo, arg, out) == [op |-> op, sudo |-> sudo, arg |-> arg, out |-> out]

\* the log entries that are external commands (the rest are reads)
CommandOps == {"nix-build", "nix build", "ls", "nvd", "nix-env --set", "nix-env",
               "activate-user", "activate", "nix-instantiate", "nix edit", "editor",
               "readlink"}

\* the commands of the build step, of the profile store, and of activation
BuildOps == {"nix-build", "nix build"}

ProfileOps == {"nix-env --set", "nix-env"}

ActivationOps == {"activate-user", "activate"}

RECURSIVE Filter(_, _)
Filter(s, ops) ==
  IF s = << >> THEN << >>
  ELSE IF Head(s).op \in ops THEN << Head(s) >> \o Filter(Tail(s), ops)
  ELSE Filter(Tail(s), ops)

Ops(s) == [i \in 1..Len(s) |-> s[i].op]

Count(s, ops) == Len(Filter(s, ops))

----
\* Action selection

\* mutant: without a subcommand and without a flag the generations are listed
NixDarwinRunner_action_listing(a, rb, lg) ==
  IF a # "None" THEN a
  ELSE IF rb THEN "Rollback"
  ELSE "ListGenerations"

NixDarwinRunner_action(a, rb, lg) ==
  IF a # "None" THEN a
  ELSE IF rb THEN "Rollback"
  ELSE IF lg THEN "ListGenerations"
  ELSE "NoAction"

BuildRunner_action(a, rb, lg) ==
  IF rb THEN "Rollback"
  ELSE IF lg THEN "ListGenerations"
  ELSE a

main_action(a, rb, lg) ==
  IF rb THEN "Rollback"
  ELSE IF lg THEN "List"
  ELSE a

SelectedAction ==
  IF variant = "runner" THEN NixDarwinRunner_action(action, rollback, list_generations)
  ELSE IF variant = "build_runner" THEN BuildRunner_action(action, rollback, list_generations)
  ELSE main_action(action, rollback, list_generations)

\* mutant: the Activate arm starts with the build
FirstStep_activate_builds(a) ==
  CASE a \in {"Rollback", "ListGenerations", "List"} -> "run_profile"
    [] a = "Edit" -> "find_file"
    [] a \in {"Build", "Check", "Switch", "Activate"} -> "build"
    [] a = "Changelog" -> "changelog"
    [] a = "Completions" -> "completions"

FirstStep(a) ==
  CASE a \in {"Rollback", "ListGenerations", "List"} -> "run_profile"
    [] a = "Edit" -> "find_file"
    [] a = "Activate" -> "get_real_path"
    [] a \in {"Build", "Check", "Switch"} -> "build"
    [] a = "Changelog" -> "changelog"
    [] a = "Completions" -> "completions"

----
\* Privilege policy

\* env::var("USER").unwrap() == "root": an unset USER panics, which the
\* decisions below treat before they use this
is_root_user(u) == u = "root"

is_read_only(p) == p = "ro"

ReadUser == Call("is_root_user", FALSE, user, IF user = "unset" THEN "panic" ELSE "ok")

ReadPerm == Call("is_read_only", FALSE, perm, IF perm = "missing" THEN "err" ELSE "ok")

\* the `if` of switch_profile
switch_profile_sudo(root, ro) == ~root /\ ro

\* mutant: the condition of the older run_profile, escalate when writable
run_profile_sudo_when_writable(root, ro) == ~root /\ ~ro

\* the `if` of NixDarwinRunner::run_profile
NixDarwinRunner_run_profile_sudo(root, ro) == ~root /\ ro

\* the `if` of build_runner.rs run_profile
BuildRunner_run_profile_sudo(root, ro) == ~root /\ ~ro

\* mutant: the branches of activate_profile swapped
activate_profile_sudo_swapped(root) == root

\* the `if` of activate_profile
activate_profile_sudo(root) == ~root

\* A privilege decision: what it read, and whether the step goes on ("go"),
\* returns an error ("err") or panics ("panic").
Decision(status, sudo, reads) == [status |-> status, sudo |-> sudo, reads |-> reads]

\* switch_profile: both reads, then the branch
switch_profile_decision ==
  IF user = "unset" THEN Decision("panic", FALSE, << ReadUser >>)
  ELSE IF perm = "missing" THEN Decision("err", FALSE, << ReadUser, ReadPerm >>)
  ELSE Decision("go", switch_profile_sudo(is_root_user(user), is_read_only(perm)),
                << ReadUser, ReadPerm >>)

\* NixDarwinRunner::run_profile: both reads, then the branch
NixDarwinRunner_run_profile_decision ==
  IF user = "unset" THEN Decision("panic", FALSE, << ReadUser >>)
  ELSE IF perm = "missing" THEN Decision("err", FALSE, << ReadUser, ReadPerm >>)
  ELSE Decision("go", NixDarwinRunner_run_profile_sudo(is_root_user(user), is_read_only(perm)),
                << ReadUser, ReadPerm >>)

\* build_runner.rs run_profile: `!is_root_user() && !is_read_only(profile)?`
\* reads the permission only when the user is not root
BuildRunner_run_profile_decision ==
  IF user = "unset" THEN Decision("panic", FALSE, << ReadUser >>)
  ELSE IF is_root_user(user) THEN Decision("go", FALSE, << ReadUser >>)
  ELSE IF perm = "missing" THEN Decision("err", FALSE, << ReadUser, ReadPerm >>)
  ELSE Decision("go", BuildRunner_run_profile_sudo(is_root_user(user), is_read_only(perm)),
                << ReadUser, ReadPerm >>)

\* the `if` of main.rs for List and Rollback, and for Switch
main_profile_sudo(root, ro) == ~root /\ ~ro

\* main.rs: `!is_root_user() && !is_read_only(&profile)?`, at both places
main_profile_decision ==
  IF user = "unset" THEN Decision("panic", FALSE, << ReadUser >>)
  ELSE IF is_root_user(user) THEN Decision("go", FALSE, << ReadUser >>)
  ELSE IF perm = "missing" THEN Decision("err", FALSE, << ReadUser, ReadPerm >>)
  ELSE Decision("go", main_profile_sudo(is_root_user(user), is_read_only(perm)),
                << ReadUser, ReadPerm >>)

run_profile_decision ==
  IF variant = "runner" THEN NixDarwinRunner_run_profile_decision
  ELSE IF variant = "build_runner" THEN BuildRunner_run_profile_decision
  ELSE main_profile_decision

set_profile_decision ==
  IF variant = "main" THEN main_profile_decision ELSE switch_profile_decision

\* mutant: the Rollback arm passes the flag of the ListGenerations arm
extra_profile_flags_of_list ==
  IF variant = "main"
  THEN (IF rollback THEN "--rollback" ELSE IF list_generations THEN "--list-generations" ELSE "")
  ELSE "--list-generations"

\* mutant: the ListGenerations arm passes the flag of the Rollback arm
extra_profile_flags_of_rollback ==
  IF variant = "main"
  THEN (IF rollback THEN "--rollback" ELSE IF list_generations THEN "--list-generations" ELSE "")
  ELSE "--rollback"

\* the flags of the profile command: the arm's vec, or main's extra_profile_flags
extra_profile_flags ==
  IF variant = "main"
  THEN (IF rollback THEN "--rollback" ELSE IF list_generations THEN "--list-generations" ELSE "")
  ELSE (IF act = "Rollback" THEN "--rollback" ELSE "--list-generations")

\* mutant: the identity is read again, but the choice follows the first read of the run
activate_profile_decision_of_first_read ==
  IF user = "unset" THEN Decision("panic", FALSE, << ReadUser >>)
  ELSE LET r == Filter(log, {"is_root_user"})
           u == IF r = << >> THEN user ELSE r[1].arg
       IN Decision("go", activate_profile_sudo(is_root_user(u)), << ReadUser >>)

\* activate_profile: the identity is read after the user-level step
activate_profile_decision ==
  IF user = "unset" THEN Decision("panic", FALSE, << ReadUser >>)
  ELSE Decision("go", activate_profile_sudo(is_root_user(user)), << ReadUser >>)

----
\* Reference resolution: the pattern of parse_flake
\*   ^(([^:/?#]+):)?(//([^/?#]*))?([^?#]*)(\?([^#]*))?(#(.*))?

Min(S) == CHOOSE x \in S : \A y \in S : x <= y

\* a greedy [^stop]* at position i of s: how many characters it takes
Run(s, i, stop) ==
  LET ends == { j \in i..Len(s) : s[j] \in stop }
  IN IF ends = {} THEN (Len(s) + 1) - i ELSE Min(ends) - i

\* a capture group: Some(text) or None
Group(some, val) == [some |-> some, val |-> IF some THEN val ELSE << >>]

\* Regex::captures on the pattern. Every part is optional or a star, so the
\* greedy choice of each part is kept: nothing after it can fail and make the
\* matcher go back. A scheme is a non-empty run of [^:/?#] with `:` right after
\* it (a shorter run is followed by a character of the run, never by `:`).
captures(s) ==
  LET n2 == Run(s, 1, {":", "/", "?", "#"})
      g1 == n2 >= 1 /\ n2 < Len(s) /\ s[n2 + 1] = ":"
      p3 == IF g1 THEN n2 + 2 ELSE 1
      g3 == p3 < Len(s) /\ s[p3] = "/" /\ s[p3 + 1] = "/"
      n4 == IF g3 THEN Run(s, p3 + 2, {"/", "?", "#"}) ELSE 0
      p5 == IF g3 THEN p3 + 2 + n4 ELSE p3
      n5 == Run(s, p5, {"?", "#"})
      p6 == p5 + n5
      g6 == p6 <= Len(s) /\ s[p6] = "?"
      n7 == IF g6 THEN Run(s, p6 + 1, {"#"}) ELSE 0
      p8 == IF g6 THEN p6 + 1 + n7 ELSE p6
      g8 == p8 <= Len(s) /\ s[p8] = "#"
      n9 == IF g8 THEN Run(s, p8 + 1, {"\n"}) ELSE 0
  IN [ g1 |-> Group(g1, SubSeq(s, 1, n2 + 1)),
       g3 |-> Group(g3, SubSeq(s, p3, p3 + 1 + n4)),
       g5 |-> Group(TRUE, SubSeq(s, p5, p6 - 1)),
       g6 |-> Group(g6, SubSeq(s, p6, p6 + n7)),
       g9 |-> Group(g8, SubSeq(s, p8 + 1, p8 + n9)) ]

\* mutant: the scheme without its colon, group 2 of the pattern
scheme_of_group_2(caps) ==
  IF caps.g1.some THEN SubSeq(caps.g1.val, 1, Len(caps.g1.val) - 1) ELSE << >>

\* `if let Some(r) = caps.get(n) { r.as_str() } else { "" }`
scheme(caps) == caps.g1.val

authority(caps) == caps.g3.val

flake_path(caps) == caps.g5.val

query_with_question(caps) == caps.g6.val

\* format!("{}{}{}{}", scheme, authority, path, query_with_question)
format_flake_value(caps) ==
  scheme(caps) \o authority(caps) \o flake_path(caps) \o query_with_question(caps)

\* format!("{}&submodules=1", ..) when the URL has a `?`, else "{}?submodules=1"
with_submodules(url) ==
  IF \E i \in 1..Len(url) : url[i] = "?"
  THEN Str(url) \o "&submodules=1"
  ELSE Str(url) \o "?submodules=1"

\* what the match on the document gives: the flake, an error, or a panic
Resolved(f) == [status |-> "ok", flake |-> f, error |-> ""]

Bails(msg) == [status |-> "err", flake |-> None, error |-> msg]

Panics == [status |-> "panic", flake |-> None, error |-> "panic"]

\* Value::as_bool().unwrap_or(false)
as_bool_or_false(val) == val.t = "Bool" /\ val.v = JBool(TRUE).v

\* nix_darwin_runner.rs parse_flake: the two matches, on url and on submodules
NixDarwinRunner_flake(doc) ==
  LET url == Index(doc, "url")
      submodules == Index(doc, "submodules")
  IN IF url.t = "String" /\ url.v = << >> THEN Bails("flake url is empty")
     ELSE IF url.t # "String" THEN Bails("flake url is not a string")
     ELSE CASE submodules.t = "String" ->
                 (IF submodules.v = JBool(TRUE).v THEN Resolved(with_submodules(url.v))
                  ELSE IF submodules.v = JBool(FALSE).v THEN Resolved(Str(url.v))
                  ELSE Bails("provided string was not true or false"))
            [] submodules.t = "Bool" ->
                 (IF submodules.v = JBool(TRUE).v THEN Resolved(with_submodules(url.v))
                  ELSE Resolved(Str(url.v)))
            [] submodules.t = "Null" -> Resolved(Str(url.v))
            [] OTHER -> Bails("submodules is not a boolean")

\* build_runner.rs parse_flake: as_str().unwrap(), as_bool().unwrap_or(false)
BuildRunner_flake(doc) ==
  LET url == Index(doc, "url")
  IN IF url.t # "String" THEN Panics
     ELSE IF as_bool_or_false(Index(doc, "submodules")) THEN Resolved(with_submodules(url.v))
     ELSE Resolved(Str(url.v))

\* main.rs: as_str().unwrap(); `flake` is assigned only when submodules is true
main_flake(doc, current) ==
  LET url == Index(doc, "url")
  IN IF url.t # "String" THEN Panics
     ELSE IF as_bool_or_false(Index(doc, "submodules")) THEN Resolved(with_submodules(url.v))
     ELSE Resolved(current)

\* format!("darwinConfigurations.{}", flake_attr)
format_flake_attr(attr) == "darwinConfigurations." \o attr

\* mutant: the host name is asked for whatever the reference carries
asks_hostname_always(caps) == TRUE

\* whether the host name stands in for the fragment: the runners ask when group
\* 9 did not take part, main.rs when what it captured is empty
asks_hostname(caps) ==
  IF variant = "main" THEN caps.g9.val = << >> ELSE ~caps.g9.some

----
\* How a run ends

\* return: out_dir is dropped, the temporary directory removed
Return(res, msg) ==
  /\ pc' = "done"
  /\ result' = res
  /\ error' = msg
  /\ out_dir' = IF out_dir = "present" THEN "removed" ELSE out_dir

\* a panic: with the hook installed the process exits inside the hook and
\* nothing is dropped; without it the stack unwinds and out_dir is dropped
Panic ==
  /\ pc' = "done"
  /\ result' = "panic"
  /\ error' = "panic"
  /\ out_dir' = IF ~hook /\ out_dir = "present" THEN "removed" ELSE out_dir

\* exec: the process image is replaced, nothing is dropped
Replaced ==
  /\ pc' = "done"
  /\ result' = "exec"
  /\ error' = ""
  /\ out_dir' = out_dir

Goto(p) ==
  /\ pc' = p
  /\ UNCHANGED << result, error, out_dir >>

\* std::fs::exists
exists(p) == p \in StorePaths \/ (p = out_link_str /\ built)

\* Which outcomes of a child process make a wrapper that captures its output
\* return Err: handle_output_result of nix_commands.rs fails when the process
\* could not be started or has no exit code; `.output()?` of cli.rs only when
\* it could not be started. A non-zero exit is Ok for both.
output_is_err(o) ==
  IF variant = "main" THEN o = "spawn" ELSE o \in {"spawn", "signal"}

\* main.rs: `if system_config.is_empty() { exit(0) }` stands between the steps
\* that produce system_config and the steps that use it
main_exits(path) == variant = "main" /\ path = ""

----
\* The run

\* A constructed runner about to run, in any environment. main installs the
\* panic hook before anything else; a runner driven by the tests of
\* runnable.rs and build_runner.rs runs without it.
Init ==
  /\ variant \in Variants
  /\ debug \in BOOLEAN
  /\ hook \in (IF variant = "main" THEN {TRUE} ELSE BOOLEAN)
  /\ action \in (IF variant = "runner" THEN Subcommands \cup {"None"}
                 ELSE IF variant = "build_runner" THEN Subcommands
                 ELSE MainSubcommands)
  /\ rollback \in BOOLEAN
  /\ list_generations \in BOOLEAN
  /\ shell \in (IF action = "Completions" THEN Shells ELSE {"none"})
  /\ flake_arg = NoFlake
  /\ flake_value = << >>
  /\ cmd = ""
  /\ metadata = NoMetadata
  /\ flake \in Flakes
  /\ flake_attr = (IF flake = None THEN "" ELSE "darwinConfigurations.mac")
  /\ user \in Users
  /\ perm \in Perms
  /\ pc = "start"
  /\ act = "None"
  /\ darwin_config = ""
  /\ system_config = ""
  /\ built = FALSE
  /\ checkActivation = FALSE
  /\ out_dir = "none"
  /\ changelog \in (IF SelectedAction = "Changelog" /\ variant # "main"
                    THEN ChangelogFiles ELSE {NoChangelog})
  /\ profile_name = NoProfileName
  /\ profile_env = NoProfileEnv
  /\ profile = default_value(variant, profile_env)
  /\ argv = << >>
  /\ build_flags = << >>
  /\ stdout = << >>
  /\ result = "running"
  /\ error = ""
  /\ log = << >>

\* run, up to the match: the temporary directory, then the action selection
run_start ==
  /\ pc = "start"
  /\ variant # "main"
  /\ UNCHANGED << cli, env, changelog, stdout, prof, build_flags, darwin_config, system_config, built, checkActivation, log >>
  /\ \E created \in BOOLEAN :
       IF ~created
       THEN /\ Return("err", "tempdir")
            /\ UNCHANGED act
       ELSE IF SelectedAction = "NoAction"
       THEN /\ pc' = "done"
            /\ result' = "err"
            /\ error' = "No action specified"
            /\ out_dir' = "removed"
            /\ UNCHANGED act
       ELSE /\ act' = SelectedAction
            /\ out_dir' = "present"
            /\ pc' = FirstStep(SelectedAction)
            /\ UNCHANGED << result, error >>

\* main.rs up to its first external call: Completions returns at once; the
\* action selection; Changelog meets no step before `exit(0)`, its
\* system_config being empty
main_start ==
  /\ pc = "start"
  /\ variant = "main"
  /\ UNCHANGED << cli, env, changelog, stdout, prof, build_flags, darwin_config, system_config, built, checkActivation >>
  /\ IF action = "Completions"
     THEN /\ log' = Append(log, Call("generate", FALSE, shell, "ok"))
          /\ act' = "Completions"
          /\ Return("ok", "")
     ELSE /\ act' = SelectedAction
          /\ UNCHANGED log
          /\ IF SelectedAction = "Changelog"
             THEN Return("ok", "")
             ELSE Goto(FirstStep(SelectedAction))

\* run_profile, called by the Rollback and ListGenerations arms
run_profile ==
  /\ pc = "run_profile"
  /\ UNCHANGED << cli, env, changelog, stdout, prof, build_flags, act, darwin_config, system_config, built, checkActivation >>
  /\ LET d == run_profile_decision
         flag == extra_profile_flags
     IN CASE d.status = "panic" -> Panic /\ log' = log \o d.reads
          [] d.status = "err" -> Return("err", "is_read_only") /\ log' = log \o d.reads
          [] OTHER ->
               \E o \in Outcomes :
                 /\ log' = log \o d.reads \o << Call("nix-env", d.sudo, flag, o) >>
                 /\ IF o # "ok" THEN Return("err", "Failed to run nix-env")
                    ELSE IF act = "Rollback" THEN Goto("read_system_config")
                    ELSE Return("ok", "")

\* Rollback arm: read_to_string("{profile}/systemConfig").unwrap()
read_system_config ==
  /\ pc = "read_system_config"
  /\ UNCHANGED << cli, env, changelog, stdout, prof, build_flags, act, darwin_config, built, checkActivation >>
  /\ \E content \in StorePaths \cup {"", "unreadable"} :
       /\ log' = Append(log, Call("read systemConfig", FALSE, content, IF content = "unreadable" THEN "panic" ELSE "ok"))
       /\ IF content = "unreadable"
          THEN Panic /\ UNCHANGED system_config
          ELSE /\ system_config' = content
               /\ IF main_exits(content) THEN Return("ok", "") ELSE Goto("activate_user")

\* Activate arm: get_real_path of the install location
get_real_path ==
  /\ pc = "get_real_path"
  /\ variant # "main"
  /\ UNCHANGED << cli, env, changelog, stdout, prof, build_flags, act, darwin_config, built, checkActivation >>
  /\ \E real \in StorePaths \cup {"error"} :
       /\ log' = Append(log, Call("canonicalize", FALSE, real, IF real = "error" THEN "err" ELSE "ok"))
       /\ IF real = "error"
          THEN Return("err", "canonicalize") /\ UNCHANGED system_config
          ELSE system_config' = real /\ Goto("activate_user")

\* main.rs, Activate: get_real_path of cli.rs, the output of `readlink -f`
main_get_real_path ==
  /\ pc = "get_real_path"
  /\ variant = "main"
  /\ UNCHANGED << cli, env, changelog, stdout, prof, build_flags, act, darwin_config, built, checkActivation >>
  /\ \E o \in Outcomes :
       /\ log' = Append(log, Call("readlink", FALSE, "-f", o))
       /\ IF o = "spawn"
          THEN Return("err", "readlink") /\ UNCHANGED system_config
          ELSE \E real \in (IF o = "ok" THEN StorePaths ELSE {""}) :
                 /\ system_config' = real
                 /\ IF main_exits(real) THEN Return("ok", "") ELSE Goto("activate_user")

\* mutant: the Switch arm goes from the build to the activation
AfterBuild_without_switch_profile(path) ==
  /\ system_config' = path
  /\ IF main_exits(path) \/ act = "Build" THEN Return("ok", "")
     ELSE IF act = "Check" THEN Goto("check_activate")
     ELSE Goto("activate_user")

\* mutant: the Build arm goes on as the Switch arm does
AfterBuild_build_goes_on(path) ==
  /\ system_config' = path
  /\ IF main_exits(path) THEN Return("ok", "")
     ELSE IF act = "Check" THEN Goto("check_activate")
     ELSE Goto("switch_profile")

\* clap: the values of the field of Cli that a flag fills, None when the flag
\* is not on the command line
field(name) ==
  IF \E i \in 1..Len(argv) : argv[i].name = name
  THEN [some |-> TRUE, val |-> argv[CHOOSE i \in 1..Len(argv) : argv[i].name = name].vals]
  ELSE [some |-> FALSE, val |-> << >>]

\* [fields].into_iter().flatten(), each value pushed: the values of the fields
\* that are Some, in the order of the array
RECURSIVE flatten(_)
flatten(names) ==
  IF names = << >> THEN << >>
  ELSE (IF field(Head(names)).some THEN field(Head(names)).val ELSE << >>)
       \o flatten(Tail(names))

\* the runner's extra_build_flags: empty in NixDarwinRunner::new; in
\* BuildRunner::new and main.rs the values of max_jobs, cores, update_input and
\* substituters, then those of option, arg, argstr and override_input; main.rs
\* adds --no-link or --no-out-link when the action is not Build
extra_build_flags ==
  IF variant = "runner" THEN << >>
  ELSE flatten(<< "--max-jobs", "--cores", "--update-input", "--substituters" >>)
       \o flatten(<< "--option", "--arg", "--argstr", "--override-input" >>)
       \o (IF variant = "main" /\ act # "Build"
           THEN (IF flake # None THEN << "--no-link" >> ELSE << "--no-out-link" >>)
           ELSE << >>)

\* what follows a build that returned Ok(path)
AfterBuild(path) ==
  /\ system_config' = path
  /\ IF main_exits(path) \/ act = "Build" THEN Return("ok", "")
     ELSE IF act = "Check" THEN Goto("check_activate")
     ELSE Goto("switch_profile")

\* build_configuration without a flake: nix_build("<darwin>", "system")
nix_build ==
  /\ pc = "build"
  /\ flake = None
  /\ UNCHANGED << cli, env, changelog, stdout, prof, act, darwin_config, checkActivation >>
  /\ build_flags' = extra_build_flags
  /\ \E o \in Outcomes :
       /\ log' = Append(log, Call("nix-build", FALSE, "<darwin> -A system", o))
       /\ built' = (o = "ok")
       /\ IF output_is_err(o)
          THEN Return("err", "nix-build") /\ UNCHANGED system_config
          ELSE IF o = "ok"
          THEN \E path \in StorePaths : AfterBuild(path)
          ELSE AfterBuild("")

\* build_configuration with a flake: nix_flake_build, the `nix build | nom` pipeline
nix_flake_build ==
  /\ pc = "build"
  /\ flake # None
  /\ variant # "main"
  /\ UNCHANGED << cli, env, changelog, stdout, prof, act, darwin_config, system_config, checkActivation >>
  /\ build_flags' = extra_build_flags
  /\ \E o \in Outcomes :
       /\ log' = Append(log, Call("nix build", FALSE, flake, o))
       /\ built' = (o = "ok")
       /\ IF o = "spawn" THEN Return("err", "nix build") ELSE Goto("build_ls")

\* main.rs with a flake: nix_flake_build of cli.rs, `nix build --json`, whose
\* output names the store path
main_nix_flake_build ==
  /\ pc = "build"
  /\ flake # None
  /\ variant = "main"
  /\ UNCHANGED << cli, env, changelog, stdout, prof, act, darwin_config, checkActivation >>
  /\ build_flags' = extra_build_flags
  /\ \E o \in Outcomes :
       /\ log' = Append(log, Call("nix build", FALSE, flake, o))
       /\ built' = (o = "ok")
       /\ IF o # "ok"
          THEN Return("err", "Failed to run nix build") /\ UNCHANGED system_config
          ELSE \E path \in StorePaths \cup {"no output"} :
                 IF path = "no output"
                 THEN Return("err", "unable to get output") /\ UNCHANGED system_config
                 ELSE AfterBuild(path)

\* nix_flake_build: `ls -l out_dir`
nix_flake_build_ls ==
  /\ pc = "build_ls"
  /\ UNCHANGED << cli, env, changelog, stdout, prof, build_flags, act, darwin_config, system_config, built, checkActivation >>
  /\ \E o \in Outcomes :
       /\ log' = Append(log, Call("ls", FALSE, out_link_str, o))
       /\ IF o = "spawn" THEN Return("err", "ls") ELSE Goto("build_nvd")

\* nix_flake_build: `nvd diff DEFAULT_PROFILE out_dir`, then Ok(out_dir)
nix_flake_build_nvd ==
  /\ pc = "build_nvd"
  /\ UNCHANGED << cli, env, changelog, stdout, prof, build_flags, act, darwin_config, built, checkActivation >>
  /\ \E o \in Outcomes :
       /\ log' = Append(log, Call("nvd", FALSE, out_link_str, o))
       /\ IF o = "spawn"
          THEN Return("err", "nvd") /\ UNCHANGED system_config
          ELSE AfterBuild(out_link_str)

\* Switch arm: the debug assertion, then switch_profile
switch_profile ==
  /\ pc = "switch_profile"
  /\ UNCHANGED << cli, env, changelog, stdout, prof, build_flags, act, darwin_config, system_config, built, checkActivation >>
  /\ IF variant # "main" /\ debug /\ ~exists(system_config)
     THEN Panic /\ UNCHANGED log
     ELSE LET d == set_profile_decision
          IN CASE d.status = "panic" -> Panic /\ log' = log \o d.reads
               [] d.status = "err" -> Return("err", "is_read_only") /\ log' = log \o d.reads
               [] OTHER ->
                    \E o \in Outcomes :
                      /\ log' = log \o d.reads
                                  \o << Call("nix-env --set", d.sudo, system_config, o) >>
                      /\ IF o = "ok" THEN Goto("activate_user")
                         ELSE Return("err", "Failed to run nix-env --set")

\* mutant: the Check arm calls exec_activate_user without setting the marker
check_activate_without_marker ==
  /\ pc = "check_activate"
  /\ UNCHANGED << cli, env, changelog, stdout, prof, build_flags, act, darwin_config, system_config, built, checkActivation >>
  /\ \E o \in Outcomes :
       /\ log' = Append(log, Call("activate-user", FALSE, system_config, o))
       /\ IF o = "ok" THEN Return("ok", "")
          ELSE Return("err", "Failed to run activate-user")

\* Check arm: set_var("checkActivation", "1"), then exec_activate_user
check_activate ==
  /\ pc = "check_activate"
  /\ UNCHANGED << cli, env, changelog, stdout, prof, build_flags, act, darwin_config, system_config, built >>
  /\ checkActivation' = TRUE
  /\ \E o \in Outcomes :
       /\ log' = log \o << Call("set_var", FALSE, "checkActivation", "ok"),
                            Call("activate-user", FALSE, system_config, o) >>
       /\ IF o = "ok" THEN Return("ok", "")
          ELSE Return("err", "Failed to run activate-user")

\* mutant: the user-level activation is handed the out link, not the path the build returned
activate_user_of_out_link ==
  /\ pc = "activate_user"
  /\ UNCHANGED << cli, env, changelog, stdout, prof, build_flags, act, darwin_config, system_config, built, checkActivation >>
  /\ \E o \in Outcomes :
       /\ log' = Append(log, Call("activate-user", FALSE, out_link_str, o))
       /\ IF o = "ok" THEN Goto("activate_system")
          ELSE Return("err", "Failed to run activate-user")

\* mutant: activate_profile goes on whatever exec_activate_user returned
activate_user_ignoring_status ==
  /\ pc = "activate_user"
  /\ UNCHANGED << cli, env, changelog, stdout, prof, build_flags, act, darwin_config, system_config, built, checkActivation >>
  /\ \E o \in Outcomes :
       /\ log' = Append(log, Call("activate-user", FALSE, system_config, o))
       /\ Goto("activate_system")

\* activate_profile, first half: exec_activate_user
activate_user ==
  /\ pc = "activate_user"
  /\ UNCHANGED << cli, env, changelog, stdout, prof, build_flags, act, darwin_config, system_config, built, checkActivation >>
  /\ \E o \in Outcomes :
       /\ log' = Append(log, Call("activate-user", FALSE, system_config, o))
       /\ IF o = "ok" THEN Goto("activate_system")
          ELSE Return("err", "Failed to run activate-user")

\* mutant: a system-level activation that failed is tried again
activate_system_retrying ==
  /\ pc = "activate_system"
  /\ UNCHANGED << cli, env, changelog, stdout, prof, build_flags, act, darwin_config, system_config, built, checkActivation >>
  /\ LET d == activate_profile_decision
     IN IF d.status = "panic"
        THEN Panic /\ log' = log \o d.reads
        ELSE \E o \in Outcomes :
               /\ log' = log \o d.reads \o << Call("activate", d.sudo, system_config, o) >>
               /\ IF o = "ok" THEN Return("ok", "")
                  ELSE Goto("activate_system")

\* activate_profile, second half: is_root_user, then sudo_exec_activate or exec_activate
activate_system ==
  /\ pc = "activate_system"
  /\ UNCHANGED << cli, env, changelog, stdout, prof, build_flags, act, darwin_config, system_config, built, checkActivation >>
  /\ LET d == activate_profile_decision
     IN IF d.status = "panic"
        THEN Panic /\ log' = log \o d.reads
        ELSE \E o \in Outcomes :
               /\ log' = log \o d.reads \o << Call("activate", d.sudo, system_config, o) >>
               /\ IF o = "ok" THEN Return("ok", "")
                  ELSE Return("err", "Failed to run activate")

\* Edit arm: nix_instantiate_find_file("darwin-config")
find_file ==
  /\ pc = "find_file"
  /\ UNCHANGED << cli, env, changelog, stdout, prof, build_flags, act, system_config, built, checkActivation >>
  /\ \E o \in Outcomes :
       /\ log' = Append(log, Call("nix-instantiate", FALSE, "darwin-config", o))
       /\ IF output_is_err(o)
          THEN Return("err", "nix-instantiate") /\ UNCHANGED darwin_config
          ELSE /\ \E f \in ConfigFiles : darwin_config' = f
               /\ Goto("edit")

\* mutant: nix edit on the reference without the attribute path
exec_nix_edit_without_attr ==
  /\ pc = "edit"
  /\ flake # None
  /\ UNCHANGED << cli, env, changelog, stdout, prof, build_flags, act, darwin_config, system_config, built, checkActivation >>
  /\ \E o \in Outcomes :
       /\ log' = Append(log, Call("nix edit", FALSE, flake, o))
       /\ IF output_is_err(o) THEN Return("err", "nix edit") ELSE Return("ok", "")

\* Edit arm with a flake: nix edit -- flake#flake_attr
exec_nix_edit ==
  /\ pc = "edit"
  /\ flake # None
  /\ UNCHANGED << cli, env, changelog, stdout, prof, build_flags, act, darwin_config, system_config, built, checkActivation >>
  /\ \E o \in Outcomes :
       /\ log' = Append(log, Call("nix edit", FALSE, flake \o "#" \o flake_attr, o))
       /\ IF output_is_err(o) THEN Return("err", "nix edit") ELSE Return("ok", "")

\* Edit arm without a flake: exec of $EDITOR on the found file. An exec that
\* succeeds never returns. When it fails, exec_editor of nix_commands.rs drops
\* the error and build_runner.rs and main.rs go on to Ok; runnable.rs returns
\* what its exec_editor returns, a Result whose source is not in the
\* repository's files: either outcome is allowed.
exec_editor ==
  /\ pc = "edit"
  /\ flake = None
  /\ UNCHANGED << cli, env, changelog, stdout, prof, build_flags, act, darwin_config, system_config, built, checkActivation >>
  /\ \E replaced \in BOOLEAN :
       /\ log' = Append(log, Call("editor", FALSE, darwin_config,
                                  IF replaced THEN "ok" ELSE "spawn"))
       /\ IF replaced THEN Replaced
          ELSE IF variant # "runner" THEN Return("ok", "")
          ELSE \E r \in {"ok", "err"} : Return(r, IF r = "ok" THEN "" ELSE "exec")

\* mutant: the whole file is printed
print_changelog_whole_file ==
  /\ pc = "changelog"
  /\ variant # "main"
  /\ UNCHANGED << cli, env, changelog, prof, build_flags, act, darwin_config, system_config, built, checkActivation >>
  /\ log' = Append(log, Call("read darwin-changes", FALSE, "darwin-changes",
                             IF changelog.readable THEN "ok" ELSE "err"))
  /\ IF changelog.readable
     THEN /\ stdout' = stdout \o changelog.lines
          /\ Return("ok", "")
     ELSE /\ UNCHANGED stdout
          /\ Return("err", "darwin-changes")

\* Changelog arm: print_changelog(DEFAULT_PROFILE); fs::read_to_string(file)?
\* and then a println! for each of changelog.lines().take(32)
print_changelog ==
  /\ pc = "changelog"
  /\ variant # "main"
  /\ UNCHANGED << cli, env, changelog, prof, build_flags, act, darwin_config, system_config, built, checkActivation >>
  /\ log' = Append(log, Call("read darwin-changes", FALSE, "darwin-changes",
                             IF changelog.readable THEN "ok" ELSE "err"))
  /\ IF changelog.readable
     THEN /\ stdout' = stdout \o take(changelog.lines, MaxChangelogLines)
          /\ Return("ok", "")
     ELSE /\ UNCHANGED stdout
          /\ Return("err", "darwin-changes")

\* Completions arm
\* mutant: only the Bash target is generated, the others are an error
generate_completion_bash_only ==
  /\ pc = "completions"
  /\ variant # "main"
  /\ UNCHANGED << cli, env, changelog, stdout, prof, build_flags, act, darwin_config, system_config, built, checkActivation >>
  /\ IF shell = "Bash"
     THEN /\ log' = Append(log, Call("generate", FALSE, shell, "ok"))
          /\ Return("ok", "")
     ELSE /\ log' = Append(log, Call("generate", FALSE, shell, "err"))
          /\ Return("err", "unsupported shell")

generate_completion ==
  /\ pc = "completions"
  /\ variant # "main"
  /\ UNCHANGED << cli, env, changelog, stdout, prof, build_flags, act, darwin_config, system_config, built, checkActivation >>
  /\ log' = Append(log, Call("generate", FALSE, shell, "ok"))
  /\ Return("ok", "")

\* The environment: $USER and the profile path's permissions are not the run's
\* to hold still between two of its steps
EnvChange ==
  /\ pc \notin {"start", "done"}
  /\ user' \in Users
  /\ perm' \in Perms
  /\ << user', perm' >> # << user, perm >>
  /\ UNCHANGED << cli, changelog, stdout, prof, build_flags, pc, act, darwin_config, system_config, built, checkActivation,
                  out_dir, result, error, log >>

\* the steps of a run
Steps ==
  \/ run_start
  \/ main_start
  \/ main_get_real_path
  \/ main_nix_flake_build
  \/ run_profile
  \/ read_system_config
  \/ get_real_path
  \/ nix_build
  \/ nix_flake_build
  \/ nix_flake_build_ls
  \/ nix_flake_build_nvd
  \/ switch_profile
  \/ check_activate
  \/ activate_user
  \/ activate_system
  \/ find_file
  \/ exec_nix_edit
  \/ exec_editor
  \/ print_changelog
  \/ generate_completion

Next ==
  \/ Steps
  \/ EnvChange

Spec == Init /\ [][Next]_vars

----
\* The constructor: NixDarwinRunner::new, BuildRunner::new, and the part of
\* main.rs before its first action

\* The command line as clap hands it over, nothing resolved yet. The program's
\* main installs the panic hook first.
InitNew ==
  /\ variant \in Variants
  /\ debug = FALSE
  /\ hook = TRUE
  /\ action \in (IF variant = "runner" THEN Subcommands \cup {"None"}
                 ELSE IF variant = "build_runner" THEN Subcommands
                 ELSE MainSubcommands)
  /\ rollback = FALSE
  /\ list_generations \in BOOLEAN
  /\ shell \in (IF action = "Completions" THEN Shells ELSE {"none"})
  /\ flake_arg \in FlakeArgs
  /\ flake_value = << >>
  /\ cmd = ""
  /\ metadata = NoMetadata
  /\ flake = None
  /\ flake_attr = ""
  /\ user = "other"
  /\ perm = "ro"
  /\ pc = "parse_profile"
  /\ act = "None"
  /\ darwin_config = ""
  /\ system_config = ""
  /\ built = FALSE
  /\ checkActivation = FALSE
  /\ out_dir = "none"
  /\ changelog \in (IF SelectedAction = "Changelog" /\ variant # "main"
                    THEN ChangelogFiles ELSE {NoChangelog})
  /\ profile_name = NoProfileName
  /\ profile_env = NoProfileEnv
  /\ profile = Unresolved
  /\ argv = << >>
  /\ build_flags = << >>
  /\ stdout = << >>
  /\ result = "running"
  /\ error = ""
  /\ log = << >>

\* how a failure inside the constructor ends the program: bail! in
\* nix_darwin_runner.rs, panic! in build_runner.rs, `?` in main.rs
ConstructorFails(msg) ==
  IF variant = "build_runner" THEN Panic ELSE Return("err", msg)

\* mutant: the directory that is created is the profile path itself
parse_profile_creates_profile ==
  /\ pc = "parse_profile"
  /\ UNCHANGED << cli, env, changelog, stdout, build_flags, profile_name, profile_env, act, darwin_config,
                  system_config, built, checkActivation >>
  /\ IF variant = "main" /\ action = "Completions"
     THEN Goto("new") /\ UNCHANGED << profile, log >>
     ELSE IF profile_name.some /\ Str(profile_name.val) # "system"
     THEN LET p == system_profiles \o profile_name.val
          IN \E created \in BOOLEAN :
               /\ log' = Append(log, Call("create_dir_all", FALSE, Str(p),
                                          IF created THEN "ok" ELSE "err"))
               /\ IF ~created
                  THEN /\ UNCHANGED profile
                       /\ IF variant = "runner" THEN Return("err", "create_dir_all") ELSE Panic
                  ELSE /\ profile' = Str(p)
                       /\ Goto("new")
     ELSE /\ UNCHANGED log
          /\ IF variant = "runner" /\ default_value(variant, profile_env) = ""
             THEN Return("err", "profile is empty") /\ UNCHANGED profile
             ELSE profile' = default_value(variant, profile_env) /\ Goto("new")

\* mutant: the default is returned as it is, empty or not
parse_profile_without_emptiness_test ==
  /\ pc = "parse_profile"
  /\ UNCHANGED << cli, env, changelog, stdout, build_flags, profile_name, profile_env, act, darwin_config,
                  system_config, built, checkActivation >>
  /\ IF variant = "main" /\ action = "Completions"
     THEN Goto("new") /\ UNCHANGED << profile, log >>
     ELSE IF profile_name.some /\ Str(profile_name.val) # "system"
     THEN LET p == system_profiles \o profile_name.val
              path == parent(p)
          IN IF ~path.some
             THEN /\ UNCHANGED << profile, log >>
                  /\ IF variant = "runner" THEN Return("err", "unable to get parent directory")
                     ELSE Panic
             ELSE \E created \in BOOLEAN :
                    /\ log' = Append(log, Call("create_dir_all", FALSE, Str(path.val),
                                               IF created THEN "ok" ELSE "err"))
                    /\ IF ~created
                       THEN /\ UNCHANGED profile
                            /\ IF variant = "runner" THEN Return("err", "create_dir_all") ELSE Panic
                       ELSE /\ profile' = Str(p)
                            /\ Goto("new")
     ELSE /\ UNCHANGED log
          /\ profile' = default_value(variant, profile_env)
          /\ Goto("new")

\* parse_profile, and its copies in build_runner.rs and main.rs: the default
\* for no name and for `system`; for another name the path under
\* system-profiles, once the directory it lies in is created. The runner's
\* `?` and bail! are unwrap()s in the two copies, which have no emptiness test.
parse_profile ==
  /\ pc = "parse_profile"
  /\ UNCHANGED << cli, env, changelog, stdout, build_flags, profile_name, profile_env, act, darwin_config,
                  system_config, built, checkActivation >>
  /\ IF variant = "main" /\ action = "Completions"
     THEN Goto("new") /\ UNCHANGED << profile, log >>
     ELSE IF profile_name.some /\ Str(profile_name.val) # "system"
     THEN LET p == system_profiles \o profile_name.val
              path == parent(p)
          IN IF ~path.some
             THEN /\ UNCHANGED << profile, log >>
                  /\ IF variant = "runner" THEN Return("err", "unable to get parent directory")
                     ELSE Panic
             ELSE \E created \in BOOLEAN :
                    /\ log' = Append(log, Call("create_dir_all", FALSE, Str(path.val),
                                               IF created THEN "ok" ELSE "err"))
                    /\ IF ~created
                       THEN /\ UNCHANGED profile
                            /\ IF variant = "runner" THEN Return("err", "create_dir_all") ELSE Panic
                       ELSE /\ profile' = Str(p)
                            /\ Goto("new")
     ELSE /\ UNCHANGED log
          /\ IF variant = "runner" /\ default_value(variant, profile_env) = ""
             THEN Return("err", "profile is empty") /\ UNCHANGED profile
             ELSE profile' = default_value(variant, profile_env) /\ Goto("new")

\* mutant: the reference is left unresolved for the actions that do not use it
parse_flake_only_when_used ==
  /\ pc = "new"
  /\ UNCHANGED << args, env, changelog, stdout, prof, build_flags, cmd, metadata, act, darwin_config, system_config, built,
                  checkActivation, log >>
  /\ IF action \in {"Changelog", "Completions"} \/ ~flake_arg.some
     THEN /\ flake' = None
          /\ flake_attr' = ""
          /\ flake_value' = << >>
          /\ Goto("start")
     ELSE LET caps == captures(flake_arg.val)
          IN /\ flake_value' = format_flake_value(caps)
             /\ flake' = IF variant = "main" THEN Str(format_flake_value(caps)) ELSE None
             /\ IF asks_hostname(caps)
                THEN flake_attr' = "" /\ Goto("hostname")
                ELSE /\ flake_attr' = IF variant = "main"
                                      THEN format_flake_attr(Str(caps.g9.val))
                                      ELSE Str(caps.g9.val)
                     /\ Goto("probe")

\* parse_flake up to the attribute: no reference, or the captures of the pattern
parse_flake ==
  /\ pc = "new"
  /\ UNCHANGED << args, env, changelog, stdout, prof, build_flags, cmd, metadata, act, darwin_config, system_config, built,
                  checkActivation, log >>
  /\ IF (variant = "main" /\ action = "Completions") \/ ~flake_arg.some
     THEN /\ flake' = None
          /\ flake_attr' = ""
          /\ flake_value' = << >>
          /\ Goto("start")
     ELSE LET caps == captures(flake_arg.val)
          IN /\ flake_value' = format_flake_value(caps)
             /\ flake' = IF variant = "main" THEN Str(format_flake_value(caps)) ELSE None
             /\ IF asks_hostname(caps)
                THEN flake_attr' = "" /\ Goto("hostname")
                ELSE /\ flake_attr' = IF variant = "main"
                                      THEN format_flake_attr(Str(caps.g9.val))
                                      ELSE Str(caps.g9.val)
                     /\ Goto("probe")

\* get_local_hostname: gethostname().into_string()
get_local_hostname ==
  /\ pc = "hostname"
  /\ UNCHANGED << args, env, changelog, stdout, prof, build_flags, flake_value, cmd, metadata, flake, act, darwin_config,
                  system_config, built, checkActivation >>
  /\ \E h \in Hostnames \cup {"not unicode"} :
       /\ log' = Append(log, Call("gethostname", FALSE, h,
                                  IF h = "not unicode" THEN "err" ELSE "ok"))
       /\ IF h = "not unicode"
          THEN ConstructorFails("Failed to get local hostname") /\ UNCHANGED flake_attr
          ELSE /\ flake_attr' = IF variant = "main" THEN format_flake_attr(h) ELSE h
               /\ Goto("probe")

\* nix_command_supports_flake_metadata: `nix flake metadata --version`
nix_command_supports_flake_metadata ==
  /\ pc = "probe"
  /\ UNCHANGED << args, env, changelog, stdout, prof, build_flags, flake_value, metadata, flake, flake_attr, act, darwin_config,
                  system_config, built, checkActivation >>
  /\ \E o \in Outcomes :
       /\ log' = Append(log, Call("nix flake metadata --version", FALSE, "", o))
       /\ cmd' = IF output_is_err(o) THEN "info" ELSE "metadata"
       /\ Goto("metadata")

\* get_flake_metadata, then the rest of parse_flake: the url, the submodules,
\* the attribute path
get_flake_metadata ==
  /\ pc = "metadata"
  /\ UNCHANGED << args, env, changelog, stdout, prof, build_flags, flake_value, cmd, act, darwin_config, system_config, built,
                  checkActivation >>
  /\ \E o \in Outcomes, json \in BOOLEAN :
       /\ log' = Append(log, Call("nix flake " \o cmd, FALSE, Str(flake_value), o))
       /\ IF output_is_err(o) \/ ~json
          THEN /\ ConstructorFails("Failed to get flake metadata")
               /\ UNCHANGED << metadata, flake, flake_attr >>
          ELSE \E doc \in Documents :
                 LET r == IF variant = "runner" THEN NixDarwinRunner_flake(doc)
                          ELSE IF variant = "build_runner" THEN BuildRunner_flake(doc)
                          ELSE main_flake(doc, flake)
                 IN /\ metadata' = doc
                    /\ CASE r.status = "panic" -> Panic /\ UNCHANGED << flake, flake_attr >>
                         [] r.status = "err" -> Return("err", r.error) /\ UNCHANGED << flake, flake_attr >>
                         [] OTHER ->
                              /\ flake' = r.flake
                              /\ flake_attr' = IF variant = "main" THEN flake_attr
                                               ELSE format_flake_attr(flake_attr)
                              /\ Goto("start")

NextNew ==
  \/ parse_profile
  \/ parse_flake
  \/ get_local_hostname
  \/ nix_command_supports_flake_metadata
  \/ get_flake_metadata
  \/ Steps

SpecNew == InitNew /\ [][NextNew]_vars

\* The pattern alone: parse_flake tried on every reference of at most MaxLen
\* characters, up to the reference it puts together from the captures
InitParse ==
  /\ variant \in {"runner", "main"}
  /\ debug = FALSE
  /\ hook = TRUE
  /\ action = "Build"
  /\ rollback = FALSE
  /\ list_generations = FALSE
  /\ shell = "none"
  /\ flake_arg \in { SomeFlake(s) : s \in Strings(MaxLen) }
  /\ flake_value = << >>
  /\ cmd = ""
  /\ metadata = NoMetadata
  /\ flake = None
  /\ flake_attr = ""
  /\ user = "other"
  /\ perm = "ro"
  /\ pc = "new"
  /\ act = "None"
  /\ darwin_config = ""
  /\ system_config = ""
  /\ built = FALSE
  /\ checkActivation = FALSE
  /\ out_dir = "none"
  /\ changelog \in (IF SelectedAction = "Changelog" /\ variant # "main"
                    THEN ChangelogFiles ELSE {NoChangelog})
  /\ profile_name = NoProfileName
  /\ profile_env = NoProfileEnv
  /\ profile = default_value(variant, profile_env)
  /\ argv = << >>
  /\ build_flags = << >>
  /\ stdout = << >>
  /\ result = "running"
  /\ error = ""
  /\ log = << >>

NextParse == parse_flake

SpecParse == InitParse /\ [][NextParse]_vars

\* Profile resolution alone, on every profile name and every state of the
\* variable `profile`
InitProfile ==
  /\ variant \in Variants
  /\ debug = FALSE
  /\ hook = TRUE
  /\ action = "Build"
  /\ rollback = FALSE
  /\ list_generations = FALSE
  /\ shell = "none"
  /\ flake_arg = NoFlake
  /\ flake_value = << >>
  /\ cmd = ""
  /\ metadata = NoMetadata
  /\ flake = None
  /\ flake_attr = ""
  /\ user = "other"
  /\ perm = "ro"
  /\ pc = "parse_profile"
  /\ act = "None"
  /\ darwin_config = ""
  /\ system_config = ""
  /\ built = FALSE
  /\ checkActivation = FALSE
  /\ out_dir = "none"
  /\ changelog = NoChangelog
  /\ profile_name \in ProfileNames
  /\ profile_env \in ProfileEnvs
  /\ profile = Unresolved
  /\ argv = << >>
  /\ build_flags = << >>
  /\ stdout = << >>
  /\ result = "running"
  /\ error = ""
  /\ log = << >>

NextProfile == parse_profile

SpecProfile == InitProfile /\ [][NextProfile]_vars

\* A Build run without a flake, the constructor included, on every command
\* line of build flags
InitFlags ==
  /\ variant \in Variants
  /\ debug = FALSE
  /\ hook = TRUE
  /\ action = "Build"
  /\ rollback = FALSE
  /\ list_generations = FALSE
  /\ shell = "none"
  /\ argv \in CommandLines
  /\ flake_arg = NoFlake
  /\ flake_value = << >>
  /\ cmd = ""
  /\ metadata = NoMetadata
  /\ flake = None
  /\ flake_attr = ""
  /\ user = "other"
  /\ perm = "ro"
  /\ pc = "parse_profile"
  /\ act = "None"
  /\ darwin_config = ""
  /\ system_config = ""
  /\ built = FALSE
  /\ build_flags = << >>
  /\ checkActivation = FALSE
  /\ out_dir = "none"
  /\ changelog = NoChangelog
  /\ profile_name = NoProfileName
  /\ profile_env = NoProfileEnv
  /\ profile = Unresolved
  /\ stdout = << >>
  /\ result = "running"
  /\ error = ""
  /\ log = << >>

NextFlags ==
  \/ parse_profile
  \/ parse_flake
  \/ run_start
  \/ main_start
  \/ nix_build

SpecFlags == InitFlags /\ [][NextFlags]_vars

----
\* Reading the log

Cmds == Filter(log, CommandOps)

IsPrefix(s, t) == Len(s) <= Len(t) /\ \A i \in 1..Len(s) : s[i] = t[i]

\* entry i of the log is a profile-store command issued after reading the
\* identity as non-root and the profile path as read-only
ReadNonRootReadOnly(i) ==
  /\ log[i-1].op = "is_read_only"
  /\ log[i-1].arg = "ro"
  /\ log[i-2].op = "is_root_user"
  /\ log[i-2].arg # "root"

\* the constructor has not returned yet
InConstructor == pc \in {"parse_profile", "new", "hostname", "probe", "metadata"}

\* the program ended inside the constructor: no action was ever selected, and
\* it ended by a panic or with one of the constructor's errors
ConstructorFailed ==
  /\ pc = "done"
  /\ act = "None"
  /\ \/ result = "panic"
     \/ error \in {"create_dir_all", "profile is empty",
                   "Failed to get local hostname", "Failed to get flake metadata",
                   "flake url is empty", "flake url is not a string",
                   "provided string was not true or false", "submodules is not a boolean"}

\* the constructor returned a runner for a reference given on the command line
Constructed == ~InConstructor /\ ~ConstructorFailed /\ flake_arg.some

\* the constructor received a metadata document
Fetched == metadata # NoMetadata

\* the url of the document is missing, empty, or not a string
BadUrl == Index(metadata, "url").t # "String" \/ Index(metadata, "url").v = << >>

----
\* Claims

\* C1: action selection follows the priority rollback flag > list-generations
\* flag > subcommand: with the rollback flag set the run executes Rollback even
\* when a subcommand was supplied, and with list-generations set and rollback
\* absent it executes ListGenerations.
C1_SelectionPriority ==
  act # "None" =>
    /\ rollback => act = "Rollback"
    /\ (~rollback /\ list_generations) => act \in {"ListGenerations", "List"}

\* C2: a successful Switch run of the runner issues exactly the commands of one
\* build (nix-build, or nix build with its ls and nvd), then one profile-set
\* call, then the user-level activation, then the system-level activation.
C2_SwitchSequence ==
  (variant # "main" /\ act = "Switch" /\ pc = "done" /\ result = "ok") =>
    Ops(Cmds) \in { << "nix-build", "nix-env --set", "activate-user", "activate" >>,
                    << "nix build", "ls", "nvd", "nix-env --set", "activate-user", "activate" >> }

C2_Witness ==
  /\ variant = "runner" /\ act = "Switch" /\ pc = "done" /\ result = "ok"
  /\ Len(Cmds) = 6
  /\ Cmds[4].sudo

\* C3: in a Switch or Check run, when the build command exits non-zero the run
\* ends with an error there and issues no profile-set and no activation call.
C3_FailedBuildStops ==
  (variant # "main" /\ act \in {"Switch", "Check"}) =>
    \A i \in 1..Len(log) :
      (log[i].op \in BuildOps /\ log[i].out = "fail") =>
        /\ pc = "done" /\ result = "err"
        /\ Count(log, {"nix-env --set"} \cup ActivationOps) = 0

\* C4: on every exit path of a run (return, early error, panic in an arm, the
\* editor exec) the temporary build directory has been removed when the run ends.
C4_TempDirRemoved ==
  (variant # "main" /\ pc = "done") => out_dir # "present"

\* C5: the profile-set call and the rollback/list profile command go through
\* sudo if and only if the identity read is not root and the profile path read
\* is read-only.
C5_EscalationPolicy ==
  variant \in {"runner", "build_runner"} =>
    \A i \in 1..Len(log) :
      log[i].op \in ProfileOps => (log[i].sudo <=> ReadNonRootReadOnly(i))

\* C6 as claimed: at every privileged step, in the state it decides in, the
\* three call sites (profile-set, profile command, system-level activation)
\* make the same escalate-or-direct choice.
C6_SameChoiceEverywhere ==
  (variant = "runner" /\ pc \in {"switch_profile", "run_profile", "activate_system"}
     /\ user # "unset" /\ perm # "missing") =>
    /\ switch_profile_decision.sudo = NixDarwinRunner_run_profile_decision.sudo
    /\ switch_profile_decision.sudo = activate_profile_decision.sudo

\* C6 as amended: profile-set and the profile command make the same choice
\* (sudo iff non-root and read-only); system-level activation chooses on the
\* identity alone (sudo iff non-root), so it escalates wherever the other two
\* do and also for a non-root identity on a writable profile; every call in the
\* log was issued as its call site chooses.
C6_SameChoiceForProfile ==
  variant = "runner" =>
    /\ (pc \in {"switch_profile", "run_profile", "activate_system"}
          /\ user # "unset" /\ perm # "missing") =>
         /\ switch_profile_decision.sudo = NixDarwinRunner_run_profile_decision.sudo
         /\ switch_profile_decision.sudo => activate_profile_decision.sudo
         /\ activate_profile_decision.sudo <=> user # "root"
    /\ \A i \in 1..Len(log) :
         /\ log[i].op \in ProfileOps => (log[i].sudo <=> ReadNonRootReadOnly(i))
         /\ log[i].op = "activate" => (log[i].sudo <=> log[i-1].arg # "root")

C6_Witness ==
  /\ variant = "runner" /\ pc = "done" /\ act = "Switch"
  /\ \E i, j \in 1..Len(log) :
       /\ log[i].op = "nix-env --set" /\ ~log[i].sudo
       /\ log[i-2].arg = "other" /\ log[i-1].arg = "rw"
       /\ log[j].op = "activate" /\ log[j].sudo

\* C7: a profile path that does not exist does not fail the privilege
\* decision: it counts as writable, and the profile command follows, direct.
C7_MissingPathIsWritable ==
  variant = "runner" =>
    \A i \in 1..Len(log) :
      (log[i].op = "is_read_only" /\ log[i].arg = "missing") =>
        /\ i < Len(log)
        /\ log[i+1].op \in ProfileOps
        /\ ~log[i+1].sudo

\* C8: activation is user-level then system-level: a system-level activation
\* is issued only right after a user-level activation of the same path that
\* exited 0 and a read of the identity, through sudo iff that identity is not
\* root; and a Switch, Activate or Rollback run that succeeds ends with it.
C8_TwoPhaseActivation ==
  /\ \A i \in 1..Len(log) :
       log[i].op = "activate" =>
         /\ i >= 3
         /\ log[i-1].op = "is_root_user"
         /\ log[i].sudo <=> log[i-1].arg # "root"
         /\ log[i-2].op = "activate-user"
         /\ log[i-2].out = "ok"
         /\ log[i-2].arg = log[i].arg
  /\ (variant # "main" /\ pc = "done" /\ result = "ok"
        /\ act \in {"Switch", "Activate", "Rollback"}) =>
       /\ Len(log) >= 3
       /\ log[Len(log)].op = "activate"
       /\ log[Len(log)].out = "ok"
       /\ Count(log, {"activate"}) = 1
       /\ Count(log, {"activate-user"}) = 1

C8_Witness ==
  /\ variant \in {"runner", "build_runner"} /\ pc = "done" /\ result = "ok"
  /\ act = "Activate"
  /\ log[Len(log)].op = "activate" /\ log[Len(log)].sudo

\* C9: a Rollback run issues one profile command with --rollback, after it
\* reads systemConfig, after that runs the user-level and the system-level
\* activation on the path it read; no build, no profile-set call.
C9_RollbackSequence ==
  (variant # "main" /\ act = "Rollback") =>
    LET c == Filter(log, CommandOps \cup {"read systemConfig"})
    IN /\ IsPrefix(Ops(c), << "nix-env", "read systemConfig", "activate-user", "activate" >>)
       /\ Len(c) >= 1 => c[1].arg = "--rollback"
       /\ Len(c) >= 2 => c[1].out = "ok"
       /\ Len(c) >= 3 => c[3].arg = c[2].arg
       /\ Len(c) >= 4 => c[4].arg = c[2].arg
       /\ (pc = "done" /\ result = "ok") => Len(c) = 4

C9_Witness ==
  /\ variant = "runner" /\ act = "Rollback" /\ pc = "done" /\ result = "ok"
  /\ Len(Cmds) = 3
  /\ Cmds[3].arg = "/nix/store/b"

\* C10: a Build run without a flake reference invokes nix-build on <darwin>,
\* attribute system, exactly once, and issues no other command.
C10_BuildOnly ==
  (act = "Build" /\ flake = None) =>
    /\ Len(Cmds) <= 1
    /\ pc = "done" =>
         /\ Len(Cmds) = 1
         /\ Cmds[1].op = "nix-build"
         /\ Cmds[1].arg = "<darwin> -A system"
         /\ Count(log, {"is_root_user", "is_read_only", "read systemConfig"}) = 0

C10_Witness ==
  /\ variant = "runner" /\ act = "Build" /\ flake = None /\ pc = "done" /\ result = "ok"
  /\ system_config \in StorePaths

\* C11: when the metadata document has no url, an empty url, or a url that is
\* not a string, the constructor ends with an error (not a panic) and no build,
\* profile or activation command is ever issued.
C11_BadUrlFails ==
  (variant \in {"runner", "build_runner"} /\ Fetched /\ BadUrl) =>
    /\ pc = "done"
    /\ result = "err"
    /\ Count(log, BuildOps \cup ProfileOps \cup ActivationOps) = 0

\* C12: the constructor fails when resolved.submodules is present and is not
\* a boolean (a string such as "true" included), and a null or absent value
\* leaves the metadata URL as it is.
C12_SubmodulesMustBeBoolean ==
  (variant = "runner" /\ Fetched /\ ~BadUrl) =>
    /\ metadata.submodules.t \in {"String", "Number"} =>
         (pc = "done" /\ result = "err" /\ flake = None /\ act = "None")
    /\ metadata.submodules.t \in {"Null", "Absent"} => flake = Str(metadata.url.v)

\* C13: when the metadata reports submodules = true the resolved reference is
\* the metadata URL followed by ?submodules=1, or by &submodules=1 when the URL
\* already has a `?`; when it reports false the resolved reference is the
\* metadata URL unchanged.
C13_SubmodulesSuffix ==
  (variant \in {"runner", "main"} /\ Constructed /\ Fetched) =>
    LET url == metadata.url.v
        has_query == \E i \in 1..Len(url) : url[i] = "?"
    IN /\ metadata.submodules = JBool(TRUE) =>
            flake = Str(url) \o (IF has_query THEN "&submodules=1" ELSE "?submodules=1")
       /\ metadata.submodules = JBool(FALSE) => flake = Str(url)

\* C14: a runner built from a reference with a fragment has the attribute
\* path darwinConfigurations.<fragment> and never asked for the host name; one
\* built from a reference without `#` has darwinConfigurations.<hostname>, the
\* name its one lookup returned.
C14_AttributePath ==
  (variant = "runner" /\ Constructed) =>
    LET ref == flake_arg.val
        marks == { i \in 1..Len(ref) : ref[i] = "#" }
        lookups == Filter(log, {"gethostname"})
    IN /\ (marks # {} /\ Min(marks) < Len(ref)) =>
            /\ flake_attr = "darwinConfigurations." \o Str(SubSeq(ref, Min(marks) + 1, Len(ref)))
            /\ lookups = << >>
       /\ marks = {} =>
            /\ Len(lookups) = 1
            /\ lookups[1].out = "ok"
            /\ flake_attr = "darwinConfigurations." \o lookups[1].arg

C14_Witness ==
  /\ variant = "runner" /\ Constructed
  /\ flake_arg.val = << "a", "#", "h" >>
  /\ flake_attr = "darwinConfigurations.h"
  /\ pc = "done" /\ result = "ok" /\ act = "Build"

\* C15: the attribute used for resolution is never empty: a reference without
\* a fragment, or with `#` and nothing after it, gets the host name before the
\* metadata step, and an empty or unobtainable host name ends the program
\* there, before any metadata or build call.
C15_AttributeNeverEmpty ==
  (variant \in {"runner", "main"} /\ flake_arg.some) =>
    LET ref == flake_arg.val
        marks == { i \in 1..Len(ref) : ref[i] = "#" }
        no_attribute == marks = {} \/ Min(marks) = Len(ref)
    IN /\ Constructed => flake_attr # "darwinConfigurations."
       /\ \A i \in 1..Len(log) :
            /\ (log[i].op \in {"nix flake metadata", "nix flake info"} /\ no_attribute) =>
                 \E j \in 1..(i - 1) : log[j].op = "gethostname" /\ log[j].arg # ""
            /\ (log[i].op = "gethostname" /\ (log[i].out = "err" \/ log[i].arg = "")) =>
                 (i = Len(log) /\ pc = "done" /\ result = "err")

\* C16: for every reference, the reference that parse_flake puts together from
\* the scheme, authority, path and query it captured (the fragment dropped)
\* parses again into the same scheme, authority, path and query, and into no
\* fragment.
C16_ParseRoundTrip ==
  pc # "new" =>
    LET first == captures(flake_arg.val)
        again == captures(flake_value)
    IN /\ scheme(again) = scheme(first)
       /\ authority(again) = authority(first)
       /\ flake_path(again) = flake_path(first)
       /\ query_with_question(again) = query_with_question(first)
       /\ ~again.g9.some
       /\ format_flake_value(again) = flake_value

C16_Witness ==
  /\ pc = "probe"
  /\ flake_arg.val = << "a", ":", "/", "/", "?", "#" >>
  /\ flake_value = << "a", ":", "/", "/", "?" >>
  /\ captures(flake_arg.val).g9.some

\* C17: when the profile-set command, the rollback/list profile command or the
\* user-level activation script exits non-zero, the run returns an error and
\* issues nothing after it: no read of systemConfig, no activation.
C17_FailureStopsTheSequence ==
  \A i \in 1..Len(log) :
    (log[i].op \in ProfileOps \cup {"activate-user"} /\ log[i].out = "fail") =>
      /\ i = Len(log)
      /\ pc = "done"
      /\ result = "err"

C17_Witness ==
  /\ variant = "runner" /\ act = "Switch" /\ pc = "done" /\ result = "err"
  /\ Len(Cmds) = 3
  /\ Cmds[2].op = "nix-env --set" /\ Cmds[2].out = "ok"
  /\ Cmds[3].op = "activate-user" /\ Cmds[3].out = "fail"

\* C18: no external command is retried: whatever the outcomes, a run issues
\* the build, the profile-set call, the profile command, the user-level
\* activation and the system-level activation at most once each.
C18_NoRetry ==
  /\ Count(log, BuildOps) <= 1
  /\ Count(log, {"nix-env --set"}) <= 1
  /\ Count(log, {"nix-env"}) <= 1
  /\ Count(log, {"activate-user"}) <= 1
  /\ Count(log, {"activate"}) <= 1

C18_Witness ==
  /\ variant = "runner" /\ act = "Switch" /\ pc = "done" /\ result = "err"
  /\ Ops(Cmds) = << "nix-build", "nix-env --set", "activate-user", "activate" >>
  /\ Cmds[4].out = "fail"

\* C19: the diff report (nvd) is run only after a build that succeeded, and a
\* diff tool that is missing or exits non-zero never makes the build step fail.
C19_DiffAfterSuccessOnly ==
  variant # "main" =>
    \A i \in 1..Len(log) :
      log[i].op = "nvd" =>
        /\ \E j \in 1..(i - 1) : log[j].op = "nix build" /\ log[j].out = "ok"
        /\ log[i].out # "ok" => ~(pc = "done" /\ result = "err" /\ i = Len(log))

\* C20: a Check run issues the build, then sets the marker checkActivation,
\* then calls the user-level activation script, and nothing else: no
\* profile-set call, no profile command, no system-level activation.
C20_CheckSequence ==
  (variant \in {"runner", "build_runner"} /\ act = "Check") =>
    LET c == Filter(log, CommandOps \cup {"set_var"})
    IN /\ \/ IsPrefix(Ops(c), << "nix-build", "set_var", "activate-user" >>)
          \/ IsPrefix(Ops(c), << "nix build", "ls", "nvd", "set_var", "activate-user" >>)
       /\ Count(log, ProfileOps \cup {"activate"}) = 0
       /\ \A i \in 1..Len(log) :
            log[i].op = "activate-user" =>
              /\ checkActivation
              /\ i > 1
              /\ log[i-1] = Call("set_var", FALSE, "checkActivation", "ok")
              /\ log[i].arg = system_config
       /\ (pc = "done" /\ result = "ok") => Count(log, {"activate-user"}) = 1

C20_Witness ==
  /\ variant = "runner" /\ act = "Check" /\ pc = "done" /\ result = "ok"
  /\ checkActivation
  /\ Ops(Cmds) = << "nix build", "ls", "nvd", "activate-user" >>

\* C21: a ListGenerations run issues one profile command, with the flag
\* --list-generations, and nothing else: no build, no profile-set call, no read
\* of systemConfig, no activation.
C21_ListGenerationsOnly ==
  (variant = "runner" /\ act = "ListGenerations") =>
    LET c == Filter(log, CommandOps \cup {"read systemConfig", "set_var"})
    IN /\ Len(c) <= 1
       /\ Len(c) = 1 => (c[1].op = "nix-env" /\ c[1].arg = "--list-generations")
       /\ (pc = "done" /\ result = "ok") => (Len(c) = 1 /\ c[1].out = "ok")
       /\ (pc = "done" /\ Len(c) = 1 /\ c[1].out = "ok") => result = "ok"

C21_Witness ==
  /\ variant = "runner" /\ act = "ListGenerations" /\ pc = "done" /\ result = "ok"
  /\ Len(Cmds) = 1
  /\ Cmds[1].arg = "--list-generations" /\ Cmds[1].sudo

\* C22: the build is issued only when the action is Build, Check or Switch,
\* and the profile-set only when it is Switch; Activate, Changelog and
\* Completions issue no command on the profile.
C22_BuildAndSetByAction ==
  variant = "runner" =>
    /\ Count(log, BuildOps) > 0 => act \in {"Build", "Check", "Switch"}
    /\ Count(log, {"nix-env --set"}) > 0 => act = "Switch"
    /\ act \in {"Activate", "Changelog", "Completions"} => Count(log, ProfileOps) = 0

C22_Witness ==
  /\ variant = "runner" /\ act = "Switch" /\ pc = "done"
  /\ Count(log, BuildOps) = 1 /\ Count(log, {"nix-env --set"}) = 1

\* C23: a Completions run ends in success for every shell target, and holds
\* nothing but the generation: no build, no read of the identity or of the
\* permissions, no profile call, no activation call.
C23_CompletionsOnly ==
  act = "Completions" =>
    /\ shell \in Shells
    /\ IsPrefix(log, << Call("generate", FALSE, shell, "ok") >>)
    /\ pc = "done" => (result = "ok" /\ Len(log) = 1)

C23_Witness ==
  /\ variant = "runner" /\ act = "Completions" /\ shell = "PowerShell"
  /\ pc = "done" /\ result = "ok"
  /\ Ops(log) = << "generate" >>

\* C24: a Changelog run prints the first min(n, 32) lines of an n-line
\* changelog file, in file order, and issues no build, profile or activation
\* call; when the file cannot be read the run ends in an error.
C24_ChangelogHead ==
  (variant \in {"runner", "build_runner"} /\ act = "Changelog") =>
    LET n == Len(changelog.lines)
        k == IF n <= MaxChangelogLines THEN n ELSE MaxChangelogLines
    IN /\ Count(log, BuildOps \cup ProfileOps \cup ActivationOps) = 0
       /\ pc # "done" => stdout = << >>
       /\ (pc = "done" /\ changelog.readable) =>
             /\ result = "ok"
             /\ Len(stdout) = k
             /\ \A i \in 1..k : stdout[i] = changelog.lines[i]
       /\ (pc = "done" /\ ~changelog.readable) =>
             (result = "err" /\ stdout = << >>)

C24_Witness ==
  /\ variant = "runner" /\ act = "Changelog" /\ pc = "done" /\ result = "ok"
  /\ Len(changelog.lines) > MaxChangelogLines
  /\ Len(stdout) = MaxChangelogLines

\* the profile name asks for a profile of its own
Named == profile_name.some /\ Str(profile_name.val) # "system"

\* C25 as stated: with no profile name, or the name `system`, resolution
\* returns the default system profile path or the `profile` override.
C25_DefaultOrOverride ==
  (variant = "runner" /\ pc # "parse_profile" /\ ~Named) =>
    /\ pc = "new"
    /\ profile = (IF profile_env.set THEN profile_env.val ELSE DEFAULT_PROFILE)

\* C25, amended: with no profile name, or the name `system`, resolution returns
\* the `profile` override when it is set and not empty, the default path when
\* it is not set, and fails when it is set and empty; for every other name it
\* creates the parent directory of /nix/var/nix/profiles/system-profiles/<name>
\* and returns that path, and when the directory cannot be created it fails and
\* no profile path is produced.
C25_ProfileResolution ==
  (variant = "runner" /\ pc # "parse_profile") =>
    IF Named
    THEN /\ Len(log) = 1
         /\ log[1].op = "create_dir_all"
         /\ log[1].arg = Str(parent(system_profiles \o profile_name.val).val)
         /\ (profile_name.val # << >>
             /\ \A i \in 1..Len(profile_name.val) : profile_name.val[i] # "/")
              => log[1].arg = "/nix/var/nix/profiles/system-profiles"
         /\ log[1].out = "ok" =>
              /\ pc = "new"
              /\ profile = "/nix/var/nix/profiles/system-profiles/" \o Str(profile_name.val)
         /\ log[1].out # "ok" =>
              (pc = "done" /\ result = "err" /\ profile = Unresolved)
    ELSE /\ log = << >>
         /\ (profile_env.set /\ profile_env.val = "") =>
              (pc = "done" /\ result = "err" /\ error = "profile is empty"
               /\ profile = Unresolved)
         /\ (profile_env.set /\ profile_env.val # "") =>
              (pc = "new" /\ profile = profile_env.val)
         /\ ~profile_env.set => (pc = "new" /\ profile = DEFAULT_PROFILE)

C25_Witness ==
  /\ variant = "runner" /\ pc = "new"
  /\ profile_name = [some |-> TRUE, val |-> << "a" >>]
  /\ profile = "/nix/var/nix/profiles/system-profiles/a"
  /\ Cmds = << >> /\ Len(log) = 1 /\ log[1].out = "ok"

\* the build flags as the user wrote them: each flag, then its values
RECURSIVE Supplied(_)
Supplied(a) ==
  IF a = << >> THEN << >>
  ELSE << Head(a).name >> \o Head(a).vals \o Supplied(Tail(a))

\* C26: the extra build flags the build is invoked with are the build flags of
\* the command line, unchanged and in the order given.
C26_BuildFlagsForwarded ==
  (variant \in {"runner", "build_runner"} /\ Count(log, BuildOps) > 0) =>
    build_flags = Supplied(argv)

\* C27: when the identity cannot be read, the privileged step ends the run
\* with an error, and neither the escalated nor the direct command is issued.
C27_UnreadableIdentityIsAnError ==
  \A i \in 1..Len(log) :
    (variant = "runner" /\ log[i].op = "is_root_user" /\ log[i].out # "ok") =>
      /\ i = Len(log)
      /\ pc = "done"
      /\ result = "err"

\* C28: an empty flake reference is no flake reference: no host-name lookup,
\* no probe and no metadata call, and the run goes on without a flake.
C28_EmptyReferenceIsNoReference ==
  (variant \in {"runner", "main"} /\ flake_arg = SomeFlake(<< >>)
   /\ ~(variant = "main" /\ action = "Completions")) =>
    /\ Count(log, {"gethostname", "nix flake metadata --version",
                   "nix flake metadata", "nix flake info"}) = 0
    /\ pc \notin {"parse_profile", "new"} => (flake = None /\ ~ConstructorFailed)

\* C29: in a Switch run the identity is read for the profile-set step and read
\* again, after the user-level activation, for the system-level activation,
\* whose choice between sudo and the direct command follows that later read.
C29_DecisionRecomputed ==
  (variant = "runner" /\ act = "Switch") =>
    \A i \in 1..Len(log) :
      /\ log[i].op = "nix-env --set" =>
            /\ i > 2
            /\ log[i-2].op = "is_root_user" /\ log[i-1].op = "is_read_only"
            /\ log[i].sudo = (log[i-2].arg # "root" /\ log[i-1].arg = "ro")
      /\ log[i].op = "activate" =>
            /\ i > 2
            /\ log[i-2].op = "activate-user" /\ log[i-1].op = "is_root_user"
            /\ log[i].sudo = (log[i-1].arg # "root")
            /\ Count(log, {"is_root_user"}) = 2
            /\ Count(SubSeq(log, 1, i - 2), {"is_root_user"}) = 1

C29_Witness ==
  /\ variant = "runner" /\ act = "Switch" /\ pc = "done" /\ result = "ok"
  /\ LET r == Filter(log, {"is_root_user"})
     IN Len(r) = 2 /\ r[1].arg = "root" /\ r[2].arg = "other"
  /\ log[Len(log)].op = "activate" /\ log[Len(log)].sudo

\* C30: when the probe fails or exits non-zero, resolution goes on, and it
\* fetches the metadata with the legacy `info` subcommand.
C30_FailedProbeFallsBack ==
  \A i \in 1..Len(log) :
    (variant = "runner" /\ log[i].op = "nix flake metadata --version"
     /\ log[i].out # "ok") =>
      /\ cmd = "info"
      /\ i = Len(log) => pc = "metadata"
      /\ i < Len(log) => log[i+1].op = "nix flake info"

\* C31: an Edit run first finds the configuration file, then issues one
\* command: nix edit on <reference>#<attribute path> when the runner holds a
\* reference, the editor on the file found otherwise; it issues no build, profile
\* or activation command.
C31_EditSequence ==
  (variant = "runner" /\ act = "Edit") =>
    /\ Len(log) <= 2
    /\ Len(log) >= 1 => (log[1].op = "nix-instantiate" /\ log[1].arg = "darwin-config")
    /\ Len(log) = 2 =>
         /\ ~output_is_err(log[1].out)
         /\ IF flake # None
            THEN log[2].op = "nix edit" /\ log[2].arg = flake \o "#" \o flake_attr
            ELSE log[2].op = "editor" /\ log[2].arg = darwin_config
    /\ (pc = "done" /\ Len(log) = 1) => (output_is_err(log[1].out) /\ result = "err")
    /\ pc = "done" => Len(log) >= 1
    /\ Count(log, BuildOps \cup ProfileOps \cup ActivationOps) = 0

C31_Witness ==
  /\ variant = "runner" /\ act = "Edit" /\ pc = "done" /\ result = "ok"
  /\ flake # None
  /\ Ops(log) = << "nix-instantiate", "nix edit" >>
  /\ log[2].arg = "git+file:///cfg#darwinConfigurations.mac"

\* C32: in a Switch run the profile-set call, the user-level activation and the
\* system-level activation are handed one and the same path, the one the build
\* of that run returned.
C32_OnePath ==
  (variant = "runner" /\ act = "Switch") =>
    /\ Count(log, BuildOps) = 0 => system_config = ""
    /\ flake # None => system_config \in {"", out_link_str}
    /\ flake = None => system_config \in StorePaths \cup {""}
    /\ \A i \in 1..Len(log) :
         log[i].op \in {"nix-env --set", "activate-user", "activate"} =>
           /\ log[i].arg = system_config
           /\ Count(SubSeq(log, 1, i - 1), BuildOps) = 1
           /\ flake # None => log[i].arg = out_link_str

C32_Witness ==
  /\ variant = "runner" /\ act = "Switch" /\ pc = "done" /\ result = "ok"
  /\ flake = None /\ system_config \in StorePaths
  /\ LET c == Filter(log, {"nix-env --set", "activate-user", "activate"})
     IN Len(c) = 3 /\ \A i \in 1..3 : c[i].arg = system_config

\* the log entries of reference resolution
ResolutionOps ==
  {"gethostname", "nix flake metadata --version", "nix flake metadata", "nix flake info"}

\* C33: with a flake reference on the command line, resolution is complete
\* before the first step of any action, and no action starts when it failed:
\* not ListGenerations, Changelog or Completions either.
C33_ResolutionFirst ==
  (variant \in {"runner", "build_runner"} /\ flake_arg.some) =>
    /\ act = "None" => \A i \in 1..Len(log) : log[i].op \in ResolutionOps
    /\ act # "None" =>
         \E k \in 2..Len(log) :
           /\ log[k].op \in {"nix flake metadata", "nix flake info"}
           /\ ~output_is_err(log[k].out)
           /\ log[k-1].op = "nix flake metadata --version"
           /\ \A i \in 1..k : log[i].op \in ResolutionOps
           /\ \A i \in (k+1)..Len(log) : log[i].op \notin ResolutionOps
    /\ (pc = "done" /\ ConstructorFailed) => act = "None"

C33_Witness ==
  /\ variant = "runner" /\ flake_arg.some /\ act = "Completions"
  /\ pc = "done" /\ result = "ok"
  /\ Ops(log) = << "gethostname", "nix flake metadata --version", "nix flake metadata", "generate" >>

\* C34: without a subcommand, and with neither the rollback nor the
\* list-generations flag, the run issues no command and ends with the error
\* "No action specified", its temporary directory removed.
C34_NoActionSpecified ==
  (variant = "runner" /\ action = "None" /\ ~rollback /\ ~list_generations) =>
    /\ log = << >>
    /\ act = "None"
    /\ pc \in {"start", "done"}
    /\ (pc = "done" /\ out_dir # "none") =>
         /\ result = "err"
         /\ error = "No action specified"
         /\ out_dir = "removed"
    /\ (pc = "done" /\ out_dir = "none") => (result = "err" /\ error = "tempdir")

C34_Witness ==
  /\ variant = "runner" /\ action = "None" /\ ~rollback /\ ~list_generations
  /\ pc = "done" /\ result = "err" /\ error = "No action specified"
  /\ out_dir = "removed" /\ log = << >>

\* C35: the profile path of a constructed runner is never the empty string:
\* where the path would be empty, as with the variable `profile` set to the
\* empty string, resolution fails with an error.
C35_ProfileNeverEmpty ==
  (variant = "runner" /\ pc # "parse_profile") =>
    /\ pc = "new" => (profile # "" /\ profile # Unresolved)
    /\ (~Named /\ profile_env.set /\ profile_env.val = "") =>
         (pc = "done" /\ result = "err" /\ error = "profile is empty")

C35_Witness ==
  /\ variant = "runner" /\ ~profile_name.some
  /\ profile_env.set /\ profile_env.val = ""
  /\ pc = "done" /\ result = "err" /\ error = "profile is empty"
  /\ profile = Unresolved

====
